---------------------------- MODULE Spec2Model ----------------------------
(***************************************************************************)
(* Model of the webcam spectrometer (src/main.py): the Webcam wrapper, the *)
(* timer-driven update_frame slot (acquisition, grayscale conversion, ROI  *)
(* reduction, axis transform, curve update) and the two-point calibration  *)
(* apply_calib, together with the operator inputs that feed them (ROI      *)
(* handle, flip checkboxes, camera sliders, calibration cursors and        *)
(* wavelength spin boxes).                                                 *)
(*                                                                         *)
(* Numbers.  Python floats are modelled by exact rationals <<n, d>> in     *)
(* lowest terms with d > 0, so equalities below are the exact-arithmetic   *)
(* reading of the floating-point computation (rounding error is not        *)
(* modelled).  The frame is scaled down to FrameH x FrameW pixels.         *)
(***************************************************************************)
EXTENDS Integers, Sequences, FiniteSets, TLC

\* ------------------------------------------------------------------ bounds
FrameW == 3        \* frame width in pixels (columns)
FrameH == 2        \* frame height in pixels (rows)
Grid == 2          \* ROI coordinates are multiples of 1/Grid of a pixel
MaxApplies == 2    \* accepted calibrations explored in one behaviour
MaxPropVal == 0    \* slider values 0..MaxPropVal of the camera property
MaxCoord == 1000   \* largest plot coordinate a cursor is dragged to

\* -------------------------------------------------------- program constants
Lambda1Default == 436    \* spin_l1.setValue(436.0)
Lambda2Default == 546    \* spin_l2.setValue(546.0)

\* --------------------------------------------------------------- rationals
Abs(i) == IF i < 0 THEN -i ELSE i

RECURSIVE GCD(_, _)
GCD(a, b) == IF b = 0 THEN a ELSE GCD(b, a % b)

Norm(n, d) ==
    LET g == GCD(Abs(n), Abs(d))
        s == IF d < 0 THEN -1 ELSE 1
    IN  << (s * n) \div g, (s * d) \div g >>

R(i) == << i, 1 >>
RAdd(a, b) == Norm(a[1] * b[2] + b[1] * a[2], a[2] * b[2])
RSub(a, b) == Norm(a[1] * b[2] - b[1] * a[2], a[2] * b[2])
RMul(a, b) == Norm(a[1] * b[1], a[2] * b[2])
RDiv(a, b) == Norm(a[1] * b[2], a[2] * b[1])
RLeq(a, b) == a[1] * b[2] <= b[1] * a[2]
RFloor(a) == a[1] \div a[2]
RCeil(a) == -((-a[1]) \div a[2])
RIsInt(a) == a[2] = 1

\* The value numpy gives to the mean of an empty slice (0/0).
NaN == << 0, 0 >>

\* ------------------------------------------------------------ frame source
Rows == 0 .. (FrameH - 1)
Cols == 0 .. (FrameW - 1)

Grey(v) == << v, v, v >>

\* BGR frames the device can deliver (cap.read()): a column ramp 10*c, the
\* same ramp tilted by the row index, and a uniformly blue image.
FrameKinds == {"ramp", "tilt", "blue"}

DeviceFrame(kind) ==
    [r \in Rows |-> [c \in Cols |->
        CASE kind = "ramp" -> Grey(10 * c)
          [] kind = "tilt" -> Grey(10 * c + r)
          [] OTHER         -> << 255, 0, 0 >> ]]

\* cv2.flip(frame, 1): mirror the columns; cv2.flip(frame, 0): mirror the rows.
FlipH(frame) == [r \in Rows |-> [c \in Cols |-> frame[r][FrameW - 1 - c]]]
FlipV(frame) == [r \in Rows |-> [c \in Cols |-> frame[FrameH - 1 - r][c]]]

\* Webcam.read on a delivered frame: horizontal flip first, then vertical.
read(frame, fh, fv) ==
    LET f1 == IF fh THEN FlipH(frame) ELSE frame
    IN  IF fv THEN FlipV(f1) ELSE f1

\* cv2.cvtColor(frame, COLOR_BGR2GRAY): OpenCV's 14-bit fixed-point luma
\* (0.114 B + 0.587 G + 0.299 R, rounded) on 8-bit samples.
Luma(px) == (1868 * px[1] + 9617 * px[2] + 4899 * px[3] + 8192) \div 16384

cvtColor(frame) == [r \in Rows |-> [c \in Cols |-> Luma(frame[r][c])]]

\* ------------------------------------------------------------- ROI reducer
\* pyqtgraph's order-1 interpolation of the gray image at the real
\* coordinate (row y, column x): samples outside [0, size-1] on either axis
\* take the default 0; inside, the four neighbours are blended bilinearly.
Interp(gray, y, x) ==
    LET r0 == RFloor(y)
        c0 == RFloor(x)
        inside == /\ r0 >= 0 /\ RLeq(y, R(FrameH - 1))
                  /\ c0 >= 0 /\ RLeq(x, R(FrameW - 1))
        fr == RSub(y, R(r0))
        fc == RSub(x, R(c0))
        At(r, c) == R(gray[IF r > FrameH - 1 THEN 0 ELSE r]
                          [IF c > FrameW - 1 THEN 0 ELSE c])
        W(f, hi) == IF hi THEN f ELSE RSub(R(1), f)
        Term(dr, dc) == RMul(RMul(W(fr, dr = 1), W(fc, dc = 1)),
                             At(r0 + dr, c0 + dc))
    IN  IF ~inside THEN R(0)
        ELSE RAdd(RAdd(Term(0, 0), Term(0, 1)), RAdd(Term(1, 0), Term(1, 1)))

\* self.roi.getArrayRegion(gray, imageItem) for the axis-aligned RectROI
\* (row-major image axes): an array of ceil(height) rows by ceil(width)
\* columns whose element (i, j) samples the image at row pos.y + i, column
\* pos.x + j.  The region is not cropped to the image.
getArrayRegion(gray, roi) ==
    LET nr == RCeil(roi.size[2])
        nc == RCeil(roi.size[1])
    IN  [rows |-> nr, cols |-> nc,
         data |-> [i \in 0 .. (nr - 1) |-> [j \in 0 .. (nc - 1) |->
                     Interp(gray, RAdd(roi.pos[2], R(i)), RAdd(roi.pos[1], R(j)))]]]

\* Variant: only the None test, the size test forgotten.
IsEmpty_noneOnly(roi_img) == FALSE

\* roi_img is None or roi_img.size == 0 (getArrayRegion never yields None).
IsEmpty(roi_img) == roi_img.rows * roi_img.cols = 0

RECURSIVE SumCol(_, _, _)
SumCol(roi_img, j, n) ==
    IF n = 0 THEN R(0)
    ELSE RAdd(SumCol(roi_img, j, n - 1), roi_img.data[n - 1][j])

\* Variant: the column mean taken with integer division.
MeanAxis0_truncating(roi_img) ==
    [j \in 1 .. roi_img.cols |->
        IF roi_img.rows = 0 THEN NaN
        ELSE R(RFloor(SumCol(roi_img, j - 1, roi_img.rows)) \div roi_img.rows)]

\* roi_img.mean(axis=0): the float mean of every column over the rows.
MeanAxis0(roi_img) ==
    [j \in 1 .. roi_img.cols |->
        IF roi_img.rows = 0 THEN NaN
        ELSE RDiv(SumCol(roi_img, j - 1, roi_img.rows), R(roi_img.rows))]

\* ---------------------------------------------------------- axis transform
\* Variant: the axis counted from 1.
arange_from1(n) == [i \in 1 .. n |-> R(i)]

\* np.arange(len(spec))
arange(n) == [i \in 1 .. n |-> R(i - 1)]

\* lambda px: self.slope * px + self.intercept, applied to a whole axis; the
\* closure reads the attributes of self when it is called.
px_to_nm_call(s, c, x) == [i \in 1 .. Len(x) |-> RAdd(RMul(s, x[i]), c)]

\* setLabel('bottom', 'Wavelength', units='nm') / setLabel('bottom', 'Pixel')
LabelFor(cs) == IF cs THEN "Wavelength (nm)" ELSE "Pixel"

\* ------------------------------------------------------- calibration model
Undef == << >>          \* an attribute of self that was never assigned

\* self.px_to_nm once assigned: the closure over self
Lambda == << "lambda" >>

\* self.calib_set = False in __init__; slope, intercept and px_to_nm are
\* not created before the first accepted apply.
InitCalib == [set |-> FALSE, slope |-> Undef, intercept |-> Undef, fn |-> Undef]

\* if px1 == px2: return
Rejects(px1, px2) == px1 = px2

\* Variant: a rejected apply drops the installed model.
CalibOnReject_reset(cal) == InitCalib

\* Variant: the flag is raised before the cursors are compared.
CalibOnReject_flag(cal) == [cal EXCEPT !.set = TRUE]

\* the early return leaves every attribute as it was
CalibOnReject(cal) == cal

\* self.slope = (l2 - l1) / (px2 - px1)
FitSlope(px1, px2, w1, w2) == RDiv(RSub(w2, w1), RSub(px2, px1))

\* Variant: the intercept with the sign of the slope term flipped.
FitIntercept_plus(w1, s, px1) == RAdd(w1, RMul(s, px1))

\* self.intercept = l1 - self.slope * px1
FitIntercept(w1, s, px1) == RSub(w1, RMul(s, px1))

\* Variant: an accepted apply that never raises calib_set.
apply_calib_result_noFlag(cal, px1, px2, w1, w2) ==
    IF Rejects(px1, px2) THEN CalibOnReject(cal)
    ELSE LET s == FitSlope(px1, px2, w1, w2)
         IN  [set |-> cal.set, slope |-> s,
              intercept |-> FitIntercept(w1, s, px1), fn |-> Lambda]

\* apply_calib as a function of the model, the cursors and the spin boxes
apply_calib_result(cal, px1, px2, w1, w2) ==
    IF Rejects(px1, px2) THEN CalibOnReject(cal)
    ELSE LET s == FitSlope(px1, px2, w1, w2)
         IN  [set |-> TRUE, slope |-> s,
              intercept |-> FitIntercept(w1, s, px1), fn |-> Lambda]

\* ------------------------------------------------------------------- state
VARIABLES
    loop,        \* "Running" while the QTimer drives update_frame, else "Aborted"
    flip_h,      \* cam.flip_h
    flip_v,      \* cam.flip_v
    cap_prop,    \* last cap.set(pid, value) issued by a slider
    roi,         \* self.roi: [pos |-> <<x, y>>, size |-> <<w, h>>], rationals
    image,       \* array shown by img_view (gray.T), NoImage before the first
    curve_x,     \* x data of spec_curve
    curve_y,     \* y data of spec_curve
    axis_label,  \* bottom axis label of spec_plot
    calib,       \* calib_set, slope, intercept, px_to_nm of self
    l1,          \* self.l1.value(): plot x coordinate of cursor 1
    l2,          \* self.l2.value(): plot x coordinate of cursor 2
    spin_l1,     \* self.spin_l1.value()
    spin_l2,     \* self.spin_l2.value()
    n_apply,     \* number of accepted calibrations so far (exploration cap)
    last_op      \* how the last run of update_frame or apply_calib ended

vars == << loop, flip_h, flip_v, cap_prop, roi, image, curve_x, curve_y,
           axis_label, calib, l1, l2, spin_l1, spin_l2, n_apply, last_op >>

gui_inputs == << flip_h, flip_v, cap_prop, roi, l1, l2, spin_l1, spin_l2 >>
display == << image, curve_x, curve_y, axis_label >>

NoImage == << >>

Region(x, y, w, h) == [pos |-> << x, y >>, size |-> << w, h >>]

\* pg.RectROI([200, 200], [200, 100]): a fixed rectangle, twice as wide as
\* high, that lies inside a camera frame; scaled down with the frame.
DefaultROI == Region(R(1), R(1), R(2), R(1))

Transpose(a, nr, nc) == [c \in 0 .. (nc - 1) |-> [r \in 0 .. (nr - 1) |-> a[r][c]]]

InitWith(region) ==
    /\ loop = "Running"
    /\ flip_h = FALSE
    /\ flip_v = FALSE
    /\ cap_prop = << >>
    /\ roi = region
    /\ image = NoImage
    /\ curve_x = << >>
    /\ curve_y = << >>
    /\ axis_label = "Pixel"
    /\ calib = InitCalib
    /\ l1 = R(0)
    /\ l2 = R(0)
    /\ spin_l1 = R(Lambda1Default)
    /\ spin_l2 = R(Lambda2Default)
    /\ n_apply = 0
    /\ last_op = "init"

Init == InitWith(DefaultROI)

\* ------------------------------------------------------------ update_frame
\* What an exception leaving the slot does to the Qt event loop: PyQt5 from
\* 5.5 on aborts the process (qFatal); older builds print the traceback and
\* keep the timer running.
UnhandledOutcomes == {"Aborted", "Running"}

\* The slot's effect on the display and its outcome, given whether the
\* device delivered a frame, the frame, and the state it reads.
update_frame(ok, frame, fh, fv, region, cal, disp) ==
    IF ~ok
    THEN [raised |-> TRUE, op |-> "tick_read_error", disp |-> disp]
    ELSE
      LET gray == cvtColor(read(frame, fh, fv))
          shown == Transpose(gray, FrameH, FrameW)
          roi_img == getArrayRegion(gray, region)
          spec == MeanAxis0(roi_img)
          x == arange(Len(spec))
      IN  IF IsEmpty(roi_img)
          THEN [raised |-> FALSE, op |-> "tick_empty",
                disp |-> [disp EXCEPT !.image = shown]]
          ELSE IF cal.set /\ cal.fn = Undef
          THEN [raised |-> TRUE, op |-> "tick_attribute_error",
                disp |-> [disp EXCEPT !.image = shown]]
          ELSE [raised |-> FALSE, op |-> "tick_curve",
                disp |-> [image |-> shown,
                          x |-> IF cal.set
                                THEN px_to_nm_call(cal.slope, cal.intercept, x)
                                ELSE x,
                          y |-> spec,
                          label |-> LabelFor(cal.set)]]

Display == [image |-> image, x |-> curve_x, y |-> curve_y, label |-> axis_label]

\* One timer tick, the device delivering a frame of one of `kinds` or none.
Tick(kinds) ==
    /\ loop = "Running"
    /\ \E ok \in BOOLEAN, kind \in kinds, after \in UnhandledOutcomes :
         LET res == update_frame(ok, DeviceFrame(kind), flip_h, flip_v, roi,
                                 calib, Display)
         IN  /\ ~res.raised => (after = "Running")
             /\ loop' = after
             /\ image' = res.disp.image
             /\ curve_x' = res.disp.x
             /\ curve_y' = res.disp.y
             /\ axis_label' = res.disp.label
             /\ last_op' = res.op
    /\ UNCHANGED << gui_inputs, calib, n_apply >>

\* -------------------------------------------------------------- apply_calib
ApplyCalib ==
    /\ loop = "Running"
    /\ Rejects(l1, l2) \/ n_apply < MaxApplies
    /\ calib' = apply_calib_result(calib, l1, l2, spin_l1, spin_l2)
    /\ n_apply' = IF Rejects(l1, l2) THEN n_apply ELSE n_apply + 1
    /\ last_op' = IF Rejects(l1, l2) THEN "apply_rejected" ELSE "apply_ok"
    /\ UNCHANGED << loop, gui_inputs, display >>

\* --------------------------------------------------------- operator inputs
\* Plot x coordinates a cursor is dragged to: the first two pixel columns, or
\* the x coordinate of a sample of the curve now on screen when that is a
\* whole number within the explored range.
PixelTargets == {R(0), R(1)}
OnScreen == {curve_x[i] : i \in 1 .. Len(curve_x)}
SampleTargets == {v \in OnScreen : RIsInt(v) /\ Abs(v[1]) <= MaxCoord}

\* The operator drags one of the two InfiniteLine cursors.
DragCursor(targets) ==
    /\ loop = "Running"
    /\ \E k \in {1, 2}, v \in targets :
         /\ l1' = IF k = 1 THEN v ELSE l1
         /\ l2' = IF k = 2 THEN v ELSE l2
    /\ UNCHANGED << loop, last_op, flip_h, flip_v, cap_prop, roi, display, calib,
                    spin_l1, spin_l2, n_apply >>

\* Values typed into the wavelength spin boxes (range 200..1000 nm).
Wavelengths == {R(Lambda1Default), R(Lambda2Default)}

SetWavelength ==
    /\ loop = "Running"
    /\ \E k \in {1, 2}, w \in Wavelengths :
         /\ spin_l1' = IF k = 1 THEN w ELSE spin_l1
         /\ spin_l2' = IF k = 2 THEN w ELSE spin_l2
    /\ UNCHANGED << loop, last_op, flip_h, flip_v, cap_prop, roi, display, calib,
                    l1, l2, n_apply >>

\* A flip checkbox changes state; _set_flip copies both boxes to the camera.
SetFlip ==
    /\ loop = "Running"
    /\ \E h \in BOOLEAN, v \in BOOLEAN :
         /\ << h, v >> # << flip_h, flip_v >>
         /\ (h = flip_h) \/ (v = flip_v)
         /\ flip_h' = h
         /\ flip_v' = v
    /\ UNCHANGED << loop, last_op, cap_prop, roi, display, calib, l1, l2, spin_l1,
                    spin_l2, n_apply >>

\* A camera slider moves: cam.set_prop(prop_id, val) -> cap.set(pid, float(val)).
PropIds == {"exposure", "gain", "brightness", "contrast"}

SetProp ==
    /\ loop = "Running"
    /\ \E pid \in PropIds, val \in 0 .. MaxPropVal :
         cap_prop' = << pid, val >>
    /\ UNCHANGED << loop, last_op, flip_h, flip_v, roi, display, calib, l1, l2,
                    spin_l1, spin_l2, n_apply >>

\* Regions the operator drags the ROI to while calibrating: the default one
\* and one squeezed to zero width.
MainRegions ==
    { DefaultROI, Region(R(0), R(0), R(0), R(FrameH)) }

SetROI(regions) ==
    /\ loop = "Running"
    /\ \E region \in regions :
         /\ region # roi
         /\ roi' = region
    /\ UNCHANGED << loop, last_op, flip_h, flip_v, cap_prop, display, calib, l1, l2,
                    spin_l1, spin_l2, n_apply >>

\* Regions explored for the ROI reducer: at, inside, across and beyond the
\* frame's edges, on whole and fractional pixel positions, down to zero size.
PosX == {R(-1), R(0), Norm(1, Grid), R(1), R(FrameW)}
PosY == {R(-1), R(0), Norm(1, Grid)}
SizeW == {R(0), R(1), Norm(Grid + 1, Grid), R(2), R(FrameW)}
SizeH == {R(0), R(1), R(FrameH)}
AllRegions == {Region(x, y, w, h) : x \in PosX, y \in PosY, w \in SizeW, h \in SizeH}

\* The calibration workflow: ticks on uniform frames, the cursors dragged
\* between pixel columns and on-screen samples, both spin boxes.
Next ==
    \/ Tick({"blue"})
    \/ ApplyCalib
    \/ DragCursor(PixelTargets \cup SampleTargets)
    \/ SetWavelength

Spec == Init /\ [][Next]_vars

\* The control panel: every kind of handler interleaved (flip boxes, camera
\* sliders, ROI, cursors, apply, ticks), the spin boxes left at their defaults.
NextPanel ==
    \/ Tick({"blue"})
    \/ ApplyCalib
    \/ DragCursor(PixelTargets)
    \/ SetFlip
    \/ SetProp
    \/ SetROI(MainRegions)

SpecPanel == Init /\ [][NextPanel]_vars

\* The acquisition-to-profile pipeline on its own: any explored region, every
\* frame kind, the flips; no calibration is applied.
InitReduce == \E region \in AllRegions : InitWith(region)

NextReduce ==
    \/ Tick(FrameKinds)
    \/ SetFlip

SpecReduce == InitReduce /\ [][NextReduce]_vars

\* ================================================================== claims
\* slope * i + intercept of a calibration record, for a whole column index i
WavelengthAt(cal, i) == RAdd(RMul(cal.slope, R(i)), cal.intercept)

\* A step in which apply_calib installed a model.
AcceptedApply == n_apply' = n_apply + 1

\* ------------------------------------------------------------------- C1
\* C1: a tick on which Webcam.read raises is skipped without a crash: the
\* render loop is still Running afterwards, after any number of failures.
C1_FailedReadKeepsLoopRunning ==
    (last_op = "tick_read_error") => (loop = "Running")

\* ------------------------------------------------------------------- C2
\* C2: an apply whose two cursors have equal positions changes nothing of the
\* calibration model (flag, slope, intercept, mapping), whatever the entered
\* wavelengths and whatever came before.
C2_RejectedApplyKeepsModel ==
    [][(l1 = l2 /\ last_op' = "apply_rejected") => (calib' = calib)]_vars

C2_Witness ==
    /\ last_op = "apply_rejected"
    /\ l1 = l2
    /\ calib.set
    /\ spin_l1 # spin_l2

\* ------------------------------------------------------------------- C3
\* C3: an apply with cursors p1 # p2 and wavelengths w1, w2 installs
\* slope = (w2 - w1)/(p2 - p1) and intercept = w1 - slope*p1 over any earlier
\* model, so that p1 maps to w1 and p2 to w2; (100, 436), (300, 546) give
\* slope 11/20 = 0.55, intercept 381, and pixel 200 maps to 491.
C3_Scenario ==
    LET cal == apply_calib_result(InitCalib, R(100), R(300), R(436), R(546))
    IN  /\ cal.set
        /\ cal.slope = << 11, 20 >>
        /\ cal.intercept = R(381)
        /\ px_to_nm_call(cal.slope, cal.intercept, << R(200) >>) = << R(491) >>

C3_FitInstalled ==
    [][/\ C3_Scenario
       /\ (l1 # l2 /\ last_op' \in {"apply_ok", "apply_rejected"}
                  /\ (last_op' # last_op \/ calib' # calib))
          => /\ AcceptedApply
             /\ calib'.set
             /\ calib'.fn # Undef
             /\ RMul(calib'.slope, RSub(l2, l1)) = RSub(spin_l2, spin_l1)
             /\ calib'.intercept = RSub(spin_l1, RMul(calib'.slope, l1))
             /\ RAdd(RMul(calib'.slope, l1), calib'.intercept) = spin_l1
             /\ RAdd(RMul(calib'.slope, l2), calib'.intercept) = spin_l2]_vars

C3_Witness ==
    /\ last_op = "apply_ok"
    /\ n_apply >= 2
    /\ calib.slope \notin {R(0), Undef}
    /\ calib.intercept # R(0)

\* ------------------------------------------------------------------- C4
\* C4: on every accepted apply the cursor positions fed to the fit are column
\* indices of the profile: the installed model maps the column of the curve
\* on screen lying under each cursor to that cursor's entered wavelength.
C4_CursorsArePixelColumns ==
    [][AcceptedApply =>
          \A i \in 1 .. Len(curve_x) :
             /\ (curve_x[i] = l1) => (WavelengthAt(calib', i - 1) = spin_l1)
             /\ (curve_x[i] = l2) => (WavelengthAt(calib', i - 1) = spin_l2)]_vars

\* ------------------------------------------------------------------- C5
\* C5: the model starts Unset; it changes only in an apply with distinct
\* cursors, which leaves it Linear; once Linear it is never Unset again; no
\* tick, flip toggle, ROI change, camera-property change or rejected apply
\* changes the flag, the slope or the intercept.
C5_ModelChangesOnlyOnAcceptedApply ==
    /\ calib = InitCalib
    /\ [][/\ (calib' # calib) => (AcceptedApply /\ l1 # l2 /\ calib'.set)
          /\ AcceptedApply => (l1 # l2 /\ calib'.set)
          /\ calib.set => calib'.set]_vars

C5_Witness ==
    /\ calib.set
    /\ last_op = "apply_rejected"
    /\ flip_h
    /\ flip_v
    /\ cap_prop # << >>
    /\ roi # DefaultROI
    /\ image # NoImage

\* ------------------------------------------------------------------- C6
\* C6: a tick that updates the curve with a profile of length n pushes the x
\* axis [0 .. n-1] and the label Pixel when the model is Unset, and
\* x[i] = slope*i + intercept of the installed model and the label
\* Wavelength (nm) when it is Linear.
C6_AxisFollowsModel ==
    (last_op = "tick_curve") =>
        /\ Len(curve_x) = Len(curve_y)
        /\ Len(curve_y) > 0
        /\ IF calib.set
           THEN /\ \A i \in 0 .. (Len(curve_y) - 1) :
                      curve_x[i + 1] = WavelengthAt(calib, i)
                /\ axis_label = "Wavelength (nm)"
           ELSE /\ \A i \in 0 .. (Len(curve_y) - 1) : curve_x[i + 1] = R(i)
                /\ axis_label = "Pixel"

C6_Witness ==
    /\ last_op = "tick_curve"
    /\ calib.set
    /\ n_apply >= 2
    /\ Len(curve_x) >= 2
    /\ curve_x[2] \notin {R(0), R(1)}

\* ------------------------------------------------------------------- C7
\* The region holds no pixel: zero (or negative) width or height.
ZeroArea(region) == RLeq(region.size[1], R(0)) \/ RLeq(region.size[2], R(0))

\* C7: a tick that acquires a frame while the ROI reduces to nothing leaves
\* the displayed curve, the axis label and the calibration model exactly as
\* they were, and the loop goes on.
C7_EmptyRegionKeepsCurve ==
    [][(ZeroArea(roi) /\ last_op' \in {"tick_empty", "tick_curve"})
          => /\ curve_x' = curve_x
             /\ curve_y' = curve_y
             /\ axis_label' = axis_label
             /\ calib' = calib
             /\ loop' = "Running"]_vars

C7_Witness ==
    /\ last_op = "tick_empty"
    /\ ZeroArea(roi)
    /\ image # NoImage
    /\ Len(curve_y) > 0
    /\ calib.set
    /\ axis_label = "Pixel"

\* ------------------------------------------------------------------- C8
\* The gray frame of the last successful tick, recovered from the image shown.
ShownGray == Transpose(image, FrameW, FrameH)

RECURSIVE ColSum(_, _, _, _)
ColSum(gray, c, r0, n) ==
    IF n = 0 THEN 0 ELSE ColSum(gray, c, r0, n - 1) + gray[r0 + n - 1][c]

\* Exact mean of frame column c over the n rows from r0 on.
ColumnMean(gray, c, r0, n) == Norm(ColSum(gray, c, r0, n), n)

\* The region lies fully inside the frame.
Inside(region) ==
    /\ RLeq(R(0), region.pos[1])
    /\ RLeq(R(0), region.pos[2])
    /\ RLeq(RAdd(region.pos[1], region.size[1]), R(FrameW))
    /\ RLeq(RAdd(region.pos[2], region.size[2]), R(FrameH))

\* The region's position and size are whole numbers of pixels.
Whole(region) ==
    /\ RIsInt(region.pos[1]) /\ RIsInt(region.pos[2])
    /\ RIsInt(region.size[1]) /\ RIsInt(region.size[2])

RoundHalfUp(q) == RFloor(RAdd(q, << 1, 2 >>))

\* The full-frame region over the column ramp 10*c gives [0, 10, 20, ...].
C8_Scenario ==
    MeanAxis0(getArrayRegion(cvtColor(DeviceFrame("ramp")),
                             Region(R(0), R(0), R(FrameW), R(FrameH))))
        = [c \in 1 .. FrameW |-> R(10 * (c - 1))]

RMax(a, b) == IF RLeq(a, b) THEN b ELSE a
RMin(a, b) == IF RLeq(a, b) THEN a ELSE b

\* The region cut to [0, 0] .. [FrameW, FrameH]: <<x0, y0, x1, y1>>.
Clamped(region) ==
    << RMax(region.pos[1], R(0)),
       RMax(region.pos[2], R(0)),
       RMin(RAdd(region.pos[1], region.size[1]), R(FrameW)),
       RMin(RAdd(region.pos[2], region.size[2]), R(FrameH)) >>

ClampedEmpty(region) ==
    LET k == Clamped(region)
    IN  RLeq(k[3], k[1]) \/ RLeq(k[4], k[2])

\* C9: the region is clamped to the frame before reduction: a region whose
\* clamped area is zero or negative yields Empty, and a region hanging over
\* an edge contributes only its in-frame columns and rows to the profile.
C9_RegionClampedToFrame ==
    (last_op \in {"tick_curve", "tick_empty"}) =>
        IF ClampedEmpty(roi)
        THEN last_op = "tick_empty"
        ELSE Whole(roi) =>
               LET k == Clamped(roi)
               IN  /\ last_op = "tick_curve"
                   /\ Len(curve_y) = k[3][1] - k[1][1]
                   /\ \A c \in 0 .. (Len(curve_y) - 1) :
                         curve_y[c + 1] = ColumnMean(ShownGray, k[1][1] + c,
                                                     k[2][1], k[4][1] - k[2][1])

\* ------------------------------------------------------------------ C10
\* C10: whenever calib_set is true, slope, intercept and px_to_nm exist, and a
\* tick never evaluates px_to_nm while it is missing nor with coefficients
\* other than the installed ones.
C10_FlagImpliesMapping ==
    /\ calib.set =>
          /\ calib.slope # Undef
          /\ calib.intercept # Undef
          /\ calib.fn = Lambda
    /\ last_op # "tick_attribute_error"
    /\ (calib.set /\ last_op = "tick_curve") =>
          \A i \in 1 .. Len(curve_x) : curve_x[i] = WavelengthAt(calib, i - 1)

C10_Witness ==
    /\ calib.set
    /\ last_op = "tick_curve"
    /\ l1 = l2
    /\ Len(curve_x) >= 2

=============================================================================
